---- MODULE Spec2Model ----
(***************************************************************************)
(* State-machine model of examples/airbench/airbench_scion.py:             *)
(*   - the training orchestrator main() and the __main__ run loop,         *)
(*   - the CifarLoader epoch iterator,                                     *)
(*   - the batch_crop translation augmentation.                            *)
(*                                                                         *)
(* Tensors are abstracted as follows.  A parameter, buffer or momentum     *)
(* value is a record [init, dep, ver]: how it was last initialised, the    *)
(* set of runs whose training steps have flowed into it, and the number of *)
(* updates applied since initialisation.  The learning-rate multiplier     *)
(* 1 - step/total_train_steps is kept as its numerator                     *)
(* total_train_steps - step (the denominator total_train_steps is fixed    *)
(* within a run).  train_epochs may be fractional and is kept as the       *)
(* rational train_epochs_num / EpochDen.                                   *)
(***************************************************************************)
EXTENDS Integers, Sequences, FiniteSets, TLC

(* ---------------------------- bounds ----------------------------------- *)
MaxBatches == 2
EpochDen == 2
MaxEpochNum == 5
MaxWhitenBiasEpochs == 3
MaxRuns == 2
NumImages == 2
ImgSize == 2
MaxTranslate == 1
MaxLoaderEpochs == 3
CropSize == 2
MaxMargin == 3
MaxBatchSize == 3

(* tta_level indexes [infer_basic, infer_mirror, infer_mirror_translate] *)
MaxTTALevel == 2

VARIABLES
  hyp,                \* the hyperparameter dictionary (train_epochs, whiten_bias_epochs, tta_level)
  len_train_loader,   \* len(train_loader): batches per epoch
  run,                \* 0 is the 'warmup' run, 1.. are the timed runs
  pc,                 \* position inside main / the run loop
  net,                \* parameters and buffers of the two compiled models
  opt_state,          \* momentum buffers of the three optimizers
  opt_lr,             \* param_groups lr multiplier of each optimizer (numerator)
  last_epoch,         \* last_epoch of each LambdaLR scheduler
  model,              \* main's local `model`
  optimizers,         \* main's local `optimizers`
  schedulers,         \* main's local `schedulers`
  epoch,              \* loop index of the epoch loop
  current_steps,
  total_train_steps,
  batch_i,            \* batches consumed from train_loader in this epoch
  switch_epochs,      \* history: epochs at which the frozen-bias model was swapped in
  step_log,           \* history: one record per training step of this run
  evals,              \* history: one record per evaluate() call of this run
  phases,             \* history: the phases main has executed in this run, in order
  ld,                 \* a CifarLoader and its running __iter__ generator
  crop                \* one batch_crop call: its inputs, position and outputs

mainVars == <<hyp, len_train_loader, run, pc, net, opt_state, opt_lr, last_epoch,
              model, optimizers, schedulers, epoch, current_steps,
              total_train_steps, batch_i, switch_epochs, step_log, evals, phases>>

vars == <<mainVars, ld, crop>>

Max(a, b) == IF a > b THEN a ELSE b

(* ------------------------- arithmetic helpers -------------------------- *)
CeilDiv(a, b) == (a + b - 1) \div b

Min(a, b) == IF a < b THEN a ELSE b

(* ceil(epochs) of the epoch loop *)
NumEpochs == CeilDiv(hyp.train_epochs_num, EpochDen)

(* ------------------------------ names ---------------------------------- *)
Models == {"model_trainbias", "model_freezebias"}

StateNames == {"whiten_w", "whiten_b", "conv_w", "norm_w", "norm_b", "fc_w", "bn_running"}

Opts == {"optimizer_trainbias", "optimizer2_trainbias", "optimizer_freezebias"}

Scheds == {"scheduler_trainbias", "scheduler2_trainbias", "scheduler_freezebias"}

SchedOpt(s) ==
  CASE s = "scheduler_trainbias"  -> "optimizer_trainbias"
    [] s = "scheduler2_trainbias" -> "optimizer2_trainbias"
    [] s = "scheduler_freezebias" -> "optimizer_freezebias"

OptModel(o) ==
  IF o = "optimizer_freezebias" THEN "model_freezebias" ELSE "model_trainbias"

OptParams(o) ==
  IF o = "optimizer2_trainbias" THEN {"whiten_b"}
  ELSE {"whiten_w", "conv_w", "norm_b", "fc_w"}

requires_grad(m, p) ==
  CASE p = "whiten_w"   -> FALSE
    [] p = "norm_w"     -> FALSE
    [] p = "bn_running" -> FALSE
    [] p = "whiten_b"   -> m = "model_trainbias"
    [] OTHER            -> TRUE

(* ------------------------------ values --------------------------------- *)
Constructed == [init |-> "constructed", dep |-> {}, ver |-> 0]

ResetValue == [init |-> "reset", dep |-> {}, ver |-> 0]

Whitened == [init |-> "whitened", dep |-> {}, ver |-> 0]

ZeroBuf == [init |-> "zero", dep |-> {}, ver |-> 0]

make_net == [p \in StateNames |-> Constructed]

(* the module class that owns each parameter or buffer *)
ModuleType(p) ==
  CASE p \in {"whiten_w", "whiten_b", "conv_w"}   -> "Conv"
    [] p \in {"norm_w", "norm_b", "bn_running"}   -> "BatchNorm"
    [] p = "fc_w"                                 -> "Linear"

reinit_net_skips_batchnorm(m) ==
  [p \in StateNames |->
     IF ModuleType(p) \in {"Conv", "Linear"} THEN ResetValue ELSE m[p]]

reinit_net(m) ==
  [p \in StateNames |->
     IF ModuleType(p) \in {"Conv", "BatchNorm", "Linear"} THEN ResetValue ELSE m[p]]

init_whitening_conv(m) == [m EXCEPT !["whiten_w"] = Whitened]

NewOptimizer(o) == [p \in OptParams(o) |-> ZeroBuf]

get_lr(step) == total_train_steps - step

(* nn.Module.load_state_dict: every parameter and buffer is overwritten *)
module_load_state_dict(dst, src) == src

optimizer_load_state_dict_keeps_own(dst, src) == dst

(* Optimizer.load_state_dict: the per-parameter state and the param_groups *)
optimizer_load_state_dict(dst, src) == src

scheduler_load_state_dict_keeps_own(dst, src) == dst

(* LRScheduler.load_state_dict: last_epoch and the cached learning rates *)
scheduler_load_state_dict(dst, src) == src

BudgetReached_off_by_one(steps) == steps > total_train_steps

(* main, line 479 *)
BudgetReached(steps) == steps >= total_train_steps

evaluate_trainbias_only(m, level, fin) ==
  [epoch |-> epoch, model |-> "model_trainbias", tta_level |-> level,
   final |-> fin, at_step |-> current_steps]

(* one evaluate() call on model m, as seen by the report *)
evaluate(m, level, fin) ==
  [epoch |-> epoch, model |-> m, tta_level |-> level,
   final |-> fin, at_step |-> current_steps]

(* the gradient of a backward pass through model m in the current run *)
Backward(m) == UNION {net[m][p].dep : p \in StateNames} \cup {run}

ScionStep(buf, val, g, lr) ==
  LET nbuf == [init |-> buf.init, dep |-> buf.dep \cup g, ver |-> buf.ver + 1]
  IN [buf |-> nbuf,
      val |-> IF lr = 0 THEN val
              ELSE [init |-> val.init, dep |-> val.dep \cup nbuf.dep, ver |-> val.ver + 1]]

ForwardTrain(val, r) == [init |-> val.init, dep |-> val.dep \cup {r}, ver |-> val.ver + 1]

ActiveOpts == {optimizers[k] : k \in DOMAIN optimizers}

Trained(o, p) == p \in OptParams(o) /\ requires_grad(OptModel(o), p)

(* ------------------------------ tensors -------------------------------- *)
(* A batch of single-channel images is a function                          *)
(* [1..n -> [0..h-1 -> [0..w-1 -> Int]]]; Uninit marks an element of a     *)
(* torch.empty buffer that has not been written.                           *)
Uninit == -1

Height(img) == Cardinality(DOMAIN img)

ImgWidth(img) == Cardinality(DOMAIN img[0])

Empty(n, h, w) == [i \in 1..n |-> [y \in 0..(h - 1) |-> [x \in 0..(w - 1) |-> Uninit]]]

(* img[y0:y1, x0:x1] with Python's clipping of the upper ends *)
Slice(img, y0, y1, x0, x1) ==
  LET h == Max(0, Min(y1, Height(img)) - Min(y0, Height(img)))
      w == Max(0, Min(x1, ImgWidth(img)) - Min(x0, ImgWidth(img)))
  IN [y \in 0..(h - 1) |-> [x \in 0..(w - 1) |-> img[y0 + y][x0 + x]]]

(* img.flip(-1) *)
FlipLR(img) ==
  [y \in DOMAIN img |-> [x \in DOMAIN img[y] |-> img[y][ImgWidth(img) - 1 - x]]]

FlipAll(images) == [i \in DOMAIN images |-> FlipLR(images[i])]

(* the source index of position k of a reflect-padded axis of length n *)
Reflect(k, n) == IF k < 0 THEN 0 - k ELSE IF k > n - 1 THEN 2 * (n - 1) - k ELSE k

(* F.pad(images, (pad,)*4, 'reflect') *)
PadReflect(images, pad) ==
  [i \in DOMAIN images |->
     LET h == Height(images[i])
         w == ImgWidth(images[i])
     IN [y \in 0..(h + 2 * pad - 1) |-> [x \in 0..(w + 2 * pad - 1) |->
           images[i][Reflect(y - pad, h)][Reflect(x - pad, w)]]]]

(* ----------------------------- batch_crop ------------------------------ *)
(* shifts[i] = <<sy, sx>> is row i of the torch.randint draw *)
Margin(images, crop_size) == (ImgWidth(images[1]) - crop_size) \div 2

ShiftSet_inclusive_high(r) == (0 - r)..(r + 1)

(* line 90: torch.randint(-r, r+1) draws from [-r, r+1) *)
ShiftSet(r) == (0 - r)..r

RECURSIVE DirectLoop(_, _, _, _, _, _)
DirectLoop(out, images, shifts, r, crop_size, n) ==
  IF n >= (2 * r + 1) * (2 * r + 1) THEN out
  ELSE LET sy == (n \div (2 * r + 1)) - r
           sx == (n % (2 * r + 1)) - r
           mask == {i \in DOMAIN images : shifts[i][1] = sy /\ shifts[i][2] = sx}
       IN DirectLoop([i \in DOMAIN out |->
                        IF i \in mask
                        THEN Slice(images[i], r + sy, r + sy + crop_size,
                                              r + sx, r + sx + crop_size)
                        ELSE out[i]],
                     images, shifts, r, crop_size, n + 1)

(* lines 94-97: one masked copy per offset pair *)
crop_direct(images, crop_size, shifts) ==
  DirectLoop(Empty(Cardinality(DOMAIN images), crop_size, crop_size),
             images, shifts, Margin(images, crop_size), crop_size, 0)

RECURSIVE RowLoop(_, _, _, _, _, _)
RowLoop(tmp, images, shifts, r, crop_size, n) ==
  IF n >= 2 * r + 1 THEN tmp
  ELSE LET s == n - r
           mask == {i \in DOMAIN images : shifts[i][1] = s}
       IN RowLoop([i \in DOMAIN tmp |->
                     IF i \in mask
                     THEN Slice(images[i], r + s, r + s + crop_size,
                                           0, ImgWidth(images[i]))
                     ELSE tmp[i]],
                  images, shifts, r, crop_size, n + 1)

RECURSIVE ColLoop_row_mask(_, _, _, _, _, _)
ColLoop_row_mask(out, tmp, shifts, r, crop_size, n) ==
  IF n >= 2 * r + 1 THEN out
  ELSE LET s == n - r
           mask == {i \in DOMAIN tmp : shifts[i][1] = s}
       IN ColLoop_row_mask([i \in DOMAIN out |->
                     IF i \in mask
                     THEN Slice(tmp[i], 0, Height(tmp[i]), r + s, r + s + crop_size)
                     ELSE out[i]],
                  tmp, shifts, r, crop_size, n + 1)

RECURSIVE ColLoop(_, _, _, _, _, _)
ColLoop(out, tmp, shifts, r, crop_size, n) ==
  IF n >= 2 * r + 1 THEN out
  ELSE LET s == n - r
           mask == {i \in DOMAIN tmp : shifts[i][2] = s}
       IN ColLoop([i \in DOMAIN out |->
                     IF i \in mask
                     THEN Slice(tmp[i], 0, Height(tmp[i]), r + s, r + s + crop_size)
                     ELSE out[i]],
                  tmp, shifts, r, crop_size, n + 1)

(* lines 99-105: rows first into images_tmp, then columns *)
crop_two_pass(images, crop_size, shifts) ==
  LET r == Margin(images, crop_size)
      n == Cardinality(DOMAIN images)
      images_tmp == RowLoop(Empty(n, crop_size, crop_size + 2 * r),
                            images, shifts, r, crop_size, 0)
  IN ColLoop(Empty(n, crop_size, crop_size), images_tmp, shifts, r, crop_size, 0)

batch_crop(images, crop_size, shifts) ==
  IF Margin(images, crop_size) <= 2
  THEN crop_direct(images, crop_size, shifts)
  ELSE crop_two_pass(images, crop_size, shifts)

(* lines 94-97: how often the double loop assigns each entry of images_out *)
RECURSIVE DirectLoopWrites(_, _, _, _)
DirectLoopWrites(writes, shifts, r, n) ==
  IF n >= (2 * r + 1) * (2 * r + 1) THEN writes
  ELSE LET sy == (n \div (2 * r + 1)) - r
           sx == (n % (2 * r + 1)) - r
           mask == {i \in DOMAIN writes : shifts[i][1] = sy /\ shifts[i][2] = sx}
       IN DirectLoopWrites([i \in DOMAIN writes |->
                              IF i \in mask THEN writes[i] + 1 ELSE writes[i]],
                           shifts, r, n + 1)

(* lines 100-102 (axis 1) and 103-105 (axis 2): how often a single loop    *)
(* over range(-r, r+1) assigns each entry of its destination               *)
RECURSIVE MaskLoopWrites(_, _, _, _, _)
MaskLoopWrites(writes, shifts, axis, r, n) ==
  IF n >= 2 * r + 1 THEN writes
  ELSE LET s == n - r
           mask == {i \in DOMAIN writes : shifts[i][axis] = s}
       IN MaskLoopWrites([i \in DOMAIN writes |->
                            IF i \in mask THEN writes[i] + 1 ELSE writes[i]],
                         shifts, axis, r, n + 1)

NoWrites(n) == [i \in 1..n |-> 0]

(* the assignments batch_crop makes to images_out and to images_tmp, the   *)
(* latter allocated on the two-pass path only                              *)
batch_crop_writes(images, crop_size, shifts) ==
  LET r == Margin(images, crop_size)
      n == Cardinality(DOMAIN images)
  IN IF r <= 2
     THEN [out |-> DirectLoopWrites(NoWrites(n), shifts, r, 0),
           tmp |-> NoWrites(n), tmp_allocated |-> FALSE]
     ELSE [out |-> MaskLoopWrites(NoWrites(n), shifts, 2, r, 0),
           tmp |-> MaskLoopWrites(NoWrites(n), shifts, 1, r, 0),
           tmp_allocated |-> TRUE]

(* a padded batch with pairwise distinct elements *)
PaddedInput(r) ==
  LET side == CropSize + 2 * r
  IN [i \in 1..NumImages |-> [y \in 0..(side - 1) |-> [x \in 0..(side - 1) |->
        (i - 1) * side * side + y * side + x]]]

NoTensor == <<>>

NotRun == [out |-> <<>>, tmp |-> <<>>, tmp_allocated |-> FALSE]

CropIdle == [pc |-> "idle", r |-> 0, shifts |-> <<>>, images_out |-> NoTensor,
             direct |-> NoTensor, two_pass |-> NoTensor, writes |-> NotRun]

ShiftVariant(p, v) ==
  CASE v = "same"       -> p
    [] v = "negated"    -> <<0 - p[1], 0 - p[2]>>
    [] v = "transposed" -> <<p[2], p[1]>>

(* torch.randint(-r, r+1, size=(n, 2)), restricted to the draws in which   *)
(* the first row takes any offset pair and every other row is that pair,   *)
(* its negation or its transpose                                           *)
ShiftDraws(r) ==
  {[i \in 1..NumImages |-> IF i = 1 THEN p ELSE ShiftVariant(p, v[i])] :
      p \in ShiftSet(r) \X ShiftSet(r),
      v \in [2..NumImages -> {"same", "negated", "transposed"}]}

CropInit ==
  crop \in UNION {{[pc |-> "start", r |-> r, shifts |-> sh, images_out |-> NoTensor,
                    direct |-> NoTensor, two_pass |-> NoTensor,
                    writes |-> NotRun] :
                      sh \in ShiftDraws(r)} :
                   r \in 0..MaxMargin}

(* ----------------------------- CifarLoader ----------------------------- *)
(* self.images: NumImages images of ImgSize x ImgSize distinct elements *)
Dataset ==
  [i \in 1..NumImages |-> [y \in 0..(ImgSize - 1) |-> [x \in 0..(ImgSize - 1) |->
     (i - 1) * ImgSize * ImgSize + y * ImgSize + x]]]

(* T.Normalize: an affine map of every element *)
normalize(images) ==
  [i \in DOMAIN images |-> [y \in DOMAIN images[i] |-> [x \in DOMAIN images[i][y] |->
     2 * images[i][y][x] - 1]]]

(* torch.where(flip_mask, inputs.flip(-1), inputs) for a drawn flip_mask *)
batch_flip_lr(inputs, flip_mask) ==
  [i \in DOMAIN inputs |-> IF flip_mask[i] THEN FlipLR(inputs[i]) ELSE inputs[i]]

EmptyDict == [k \in {} |-> NoTensor]

(* lines 140-148: what the first epoch stores in self.proc_images *)
BuildCache(flip, translate, flip_mask) ==
  LET norm == normalize(Dataset)
      images == IF flip THEN batch_flip_lr(norm, flip_mask) ELSE norm
      keys == {"norm"} \cup (IF flip THEN {"flip"} ELSE {})
                      \cup (IF translate > 0 THEN {"pad"} ELSE {})
  IN [k \in keys |->
        CASE k = "norm" -> norm
          [] k = "flip" -> images
          [] k = "pad"  -> PadReflect(images, translate)]

CacheStale_every_epoch(e) == e >= 0

(* line 140 *)
CacheStale(e) == e = 0

EpochFlip_even(e) == e % 2 = 0

(* line 158 *)
EpochFlip(e) == e % 2 = 1

(* lines 150-155: the epoch's images before the whole-epoch mirror *)
EpochBase(proc_images, flip, translate, shifts) ==
  IF translate > 0 THEN batch_crop(proc_images["pad"], ImgSize, shifts)
  ELSE IF flip THEN proc_images["flip"]
  ELSE proc_images["norm"]

LoaderLen_always_ceil(l) == CeilDiv(NumImages, l.batch_size)

(* __len__ *)
LoaderLen(l) ==
  IF l.drop_last THEN NumImages \div l.batch_size
  ELSE CeilDiv(NumImages, l.batch_size)

Perms(n) == {f \in [1..n -> 1..n] : \A a, b \in 1..n : f[a] = f[b] => a = b}

(* line 165: indices[i*batch_size:(i+1)*batch_size], image ids counted from 1 *)
BatchIdxs(indices, i, batch_size) ==
  SubSeq(indices, Min(i * batch_size, Len(indices)) + 1,
                  Min((i + 1) * batch_size, Len(indices)))

NoShifts == [i \in 1..NumImages |-> <<0, 0>>]

LoaderNew(flip, translate, batch_size, drop_last, shuffle) ==
  [flip |-> flip, translate |-> translate, batch_size |-> batch_size,
   drop_last |-> drop_last, shuffle |-> shuffle,
   epoch |-> 0, proc_images |-> EmptyDict,
   pc |-> "idle", images |-> NoTensor, indices |-> <<>>, i |-> 0, batch |-> <<>>,
   flip_mask |-> [i \in 1..NumImages |-> FALSE], shifts |-> NoShifts,
   builds |-> 0, mirror_log |-> <<>>,
   yielded |-> <<>>, last_count |-> -1]

LoaderIdle == LoaderNew(FALSE, 0, 1, FALSE, FALSE)

(* training loaders (drop_last on) with any augmentation that serve the   *)
(* dataset as one batch, and loaders without translation with any batching *)
LoaderInit ==
  ld \in {LoaderNew(f, t, NumImages, TRUE, sh) :
            f \in BOOLEAN, t \in 0..Min(MaxTranslate, ImgSize - 1),
            sh \in BOOLEAN}
       \cup
         {LoaderNew(f, 0, b, d, sh) :
            f \in BOOLEAN, b \in 1..MaxBatchSize, d \in BOOLEAN, sh \in BOOLEAN}

MainIdle ==
  /\ hyp = [train_epochs_num |-> 1, whiten_bias_epochs |-> 0, tta_level |-> 0]
  /\ len_train_loader = 1
  /\ run = 0
  /\ pc = "idle"
  /\ net = [m \in Models |-> make_net]
  /\ opt_state = [o \in Opts |-> NewOptimizer(o)]
  /\ opt_lr = [o \in Opts |-> 0]
  /\ last_epoch = [s \in Scheds |-> 0]
  /\ model = "model_trainbias"
  /\ optimizers = <<>>
  /\ schedulers = <<>>
  /\ epoch = 0
  /\ current_steps = 0
  /\ total_train_steps = 0
  /\ batch_i = 0
  /\ switch_epochs = <<>>
  /\ step_log = <<>>
  /\ evals = <<>>
  /\ phases = <<>>

(* ------------------------------- Init ---------------------------------- *)
Init ==
  /\ hyp \in [train_epochs_num : 1..MaxEpochNum,
              whiten_bias_epochs : 0..MaxWhitenBiasEpochs,
              tta_level : 0..MaxTTALevel]
  /\ len_train_loader \in 1..MaxBatches
  /\ run = 0
  /\ pc = "setup"
  /\ net = [m \in Models |-> make_net]
  /\ opt_state = [o \in Opts |-> NewOptimizer(o)]
  /\ opt_lr = [o \in Opts |-> 0]
  /\ last_epoch = [s \in Scheds |-> 0]
  /\ model = "model_trainbias"
  /\ optimizers = <<>>
  /\ schedulers = <<>>
  /\ epoch = 0
  /\ current_steps = 0
  /\ total_train_steps = 0
  /\ batch_i = 0
  /\ switch_epochs = <<>>
  /\ step_log = <<>>
  /\ evals = <<>>
  /\ phases = <<>>
  /\ ld = LoaderIdle
  /\ crop = CropIdle

(* ------------------------------ actions -------------------------------- *)
MainOrder_whiten_before_reinit(p) ==
  CASE p = "setup"      -> "optimizers"
    [] p = "optimizers" -> "whiten"
    [] p = "whiten"     -> "reinit"
    [] p = "reinit"     -> "epoch_head"

(* main, lines 360-445: the statement order of the prologue of a run *)
MainOrder(p) ==
  CASE p = "setup"      -> "optimizers"
    [] p = "optimizers" -> "reinit"
    [] p = "reinit"     -> "whiten"
    [] p = "whiten"     -> "epoch_head"

(* main, lines 360-379: loaders and the step budget *)
Setup ==
  /\ pc = "setup"
  /\ total_train_steps' = CeilDiv(len_train_loader * hyp.train_epochs_num, EpochDen)
  /\ switch_epochs' = <<>>
  /\ step_log' = <<>>
  /\ evals' = <<>>
  /\ pc' = MainOrder(pc)
  /\ phases' = <<>>
  /\ UNCHANGED <<ld, crop, hyp, len_train_loader, run, net, opt_state, opt_lr, last_epoch,
                 model, optimizers, schedulers, epoch, current_steps, batch_i>>

(* main, lines 381-420: the three optimizers and their LambdaLR schedulers *)
BuildOptimizers ==
  /\ pc = "optimizers"
  /\ model' = "model_freezebias"
  /\ opt_state' = [o \in Opts |-> NewOptimizer(o)]
  /\ last_epoch' = [s \in Scheds |-> 0]
  /\ opt_lr' = [o \in Opts |-> get_lr(0)]
  /\ pc' = MainOrder(pc)
  /\ phases' = Append(phases, "build_optimizers")
  /\ UNCHANGED <<ld, crop, hyp, len_train_loader, run, net, optimizers, schedulers, epoch,
                 current_steps, total_train_steps, batch_i, switch_epochs,
                 step_log, evals>>

(* main, lines 422-424 *)
Reinit ==
  /\ pc = "reinit"
  /\ net' = [net EXCEPT !["model_trainbias"] = reinit_net(@)]
  /\ current_steps' = 0
  /\ pc' = MainOrder(pc)
  /\ phases' = Append(phases, "reinit")
  /\ UNCHANGED <<ld, crop, hyp, len_train_loader, run, opt_state, opt_lr, last_epoch, model,
                 optimizers, schedulers, epoch, total_train_steps, batch_i,
                 switch_epochs, step_log, evals>>

(* main, lines 433-439 *)
InitWhitening ==
  /\ pc = "whiten"
  /\ net' = [net EXCEPT !["model_trainbias"] = init_whitening_conv(@)]
  /\ epoch' = 0
  /\ pc' = MainOrder(pc)
  /\ phases' = Append(phases, "init_whitening")
  /\ UNCHANGED <<ld, crop, hyp, len_train_loader, run, opt_state, opt_lr, last_epoch, model,
                 optimizers, schedulers, current_steps, total_train_steps, batch_i,
                 switch_epochs, step_log, evals>>

(* main, lines 445-451 and 467-470: epoch 0 selects the trainable-bias set *)
EpochFirst ==
  /\ pc = "epoch_head" /\ epoch < NumEpochs
  /\ epoch = 0
  /\ model' = "model_trainbias"
  /\ optimizers' = <<"optimizer_trainbias", "optimizer2_trainbias">>
  /\ schedulers' = <<"scheduler_trainbias", "scheduler2_trainbias">>
  /\ batch_i' = 0
  /\ pc' = "train"
  /\ UNCHANGED <<phases, ld, crop, hyp, len_train_loader, run, net, opt_state, opt_lr, last_epoch,
                 epoch, current_steps, total_train_steps, switch_epochs, step_log,
                 evals>>

(* main, lines 452-461 and 467-470: swap in the frozen-bias model *)
EpochSwitch ==
  /\ pc = "epoch_head" /\ epoch < NumEpochs
  /\ epoch # 0
  /\ epoch = hyp.whiten_bias_epochs
  /\ LET old_optimizers == optimizers
         old_schedulers == schedulers
         new_optimizers == <<"optimizer_freezebias">>
         new_schedulers == <<"scheduler_freezebias">>
         zipped == 1..Min(Len(new_optimizers), Len(new_schedulers))
     IN /\ model' = "model_freezebias"
        /\ optimizers' = new_optimizers
        /\ schedulers' = new_schedulers
        /\ net' = [net EXCEPT !["model_freezebias"] =
                      module_load_state_dict(@, net["model_trainbias"])]
        /\ opt_state' = [o \in Opts |->
              IF \E i \in zipped : new_optimizers[i] = o
              THEN LET i == CHOOSE i \in zipped : new_optimizers[i] = o
                   IN optimizer_load_state_dict(opt_state[o], opt_state[old_optimizers[i]])
              ELSE opt_state[o]]
        /\ opt_lr' = [o \in Opts |->
              IF \E i \in zipped : new_optimizers[i] = o
              THEN LET i == CHOOSE i \in zipped : new_optimizers[i] = o
                   IN optimizer_load_state_dict(opt_lr[o], opt_lr[old_optimizers[i]])
              ELSE opt_lr[o]]
        /\ last_epoch' = [s \in Scheds |->
              IF \E i \in zipped : new_schedulers[i] = s
              THEN LET i == CHOOSE i \in zipped : new_schedulers[i] = s
                   IN scheduler_load_state_dict(last_epoch[s], last_epoch[old_schedulers[i]])
              ELSE last_epoch[s]]
  /\ switch_epochs' = Append(switch_epochs, epoch)
  /\ batch_i' = 0
  /\ pc' = "train"
  /\ UNCHANGED <<phases, ld, crop, hyp, len_train_loader, run, epoch, current_steps,
                 total_train_steps, step_log, evals>>

(* main, lines 445-452 and 467-470: neither branch, the active set is kept *)
EpochKeep ==
  /\ pc = "epoch_head" /\ epoch < NumEpochs
  /\ epoch # 0
  /\ epoch # hyp.whiten_bias_epochs
  /\ batch_i' = 0
  /\ pc' = "train"
  /\ UNCHANGED <<phases, ld, crop, hyp, len_train_loader, run, net, opt_state, opt_lr, last_epoch,
                 model, optimizers, schedulers, epoch, current_steps,
                 total_train_steps, switch_epochs, step_log, evals>>

(* main, lines 470-480: one batch: forward, backward, optimizer and scheduler steps *)
TrainStep ==
  /\ pc = "train" /\ batch_i < len_train_loader
  /\ LET g == Backward(model)
         upd(o, p) == ScionStep(opt_state[o][p], net[OptModel(o)][p], g, opt_lr[o])
         stepped == {schedulers[k] : k \in 1..Min(Len(optimizers), Len(schedulers))}
     IN /\ opt_state' = [o \in Opts |-> [p \in OptParams(o) |->
              IF o \in ActiveOpts /\ Trained(o, p) THEN upd(o, p).buf
              ELSE opt_state[o][p]]]
        /\ net' = [m \in Models |-> [p \in StateNames |->
              IF \E o \in ActiveOpts : OptModel(o) = m /\ Trained(o, p)
              THEN LET o == CHOOSE o \in ActiveOpts : OptModel(o) = m /\ Trained(o, p)
                   IN upd(o, p).val
              ELSE IF m = model /\ p = "bn_running" THEN ForwardTrain(net[m][p], run)
              ELSE net[m][p]]]
        /\ last_epoch' = [s \in Scheds |->
              IF s \in stepped THEN last_epoch[s] + 1 ELSE last_epoch[s]]
        /\ opt_lr' = [o \in Opts |->
              IF \E s \in stepped : SchedOpt(s) = o
              THEN LET s == CHOOSE s \in stepped : SchedOpt(s) = o
                   IN get_lr(last_epoch[s] + 1)
              ELSE opt_lr[o]]
        /\ step_log' = Append(step_log,
              [epoch |-> epoch, model |-> model,
               lrs |-> {opt_lr[o] : o \in ActiveOpts},
               bias |-> \E o \in ActiveOpts : Trained(o, "whiten_b")])
  /\ current_steps' = current_steps + 1
  /\ batch_i' = batch_i + 1
  /\ pc' = IF BudgetReached(current_steps + 1) THEN "eval" ELSE "train"
  /\ phases' = Append(phases, "train")
  /\ UNCHANGED <<ld, crop, hyp, len_train_loader, run, model, optimizers, schedulers, epoch,
                 total_train_steps, switch_epochs, evals>>

(* main, line 470: the loader is exhausted without a break *)
LoaderExhausted ==
  /\ pc = "train" /\ batch_i >= len_train_loader
  /\ pc' = "eval"
  /\ UNCHANGED <<phases, ld, crop, hyp, len_train_loader, run, net, opt_state, opt_lr, last_epoch,
                 model, optimizers, schedulers, epoch, current_steps,
                 total_train_steps, batch_i, switch_epochs, step_log, evals>>

(* main, lines 482-495: per-epoch validation *)
EvalEpoch ==
  /\ pc = "eval"
  /\ evals' = Append(evals, evaluate(model, 0, FALSE))
  /\ epoch' = epoch + 1
  /\ pc' = "epoch_head"
  /\ phases' = Append(phases, "evaluate")
  /\ UNCHANGED <<ld, crop, hyp, len_train_loader, run, net, opt_state, opt_lr, last_epoch,
                 model, optimizers, schedulers, current_steps, total_train_steps,
                 batch_i, switch_epochs, step_log>>

(* main, lines 497-514: the final evaluation with test-time augmentation *)
TTAEval ==
  /\ pc = "epoch_head" /\ epoch >= NumEpochs
  /\ evals' = Append(evals, evaluate(model, hyp.tta_level, TRUE))
  /\ pc' = "done"
  /\ phases' = Append(phases, "evaluate")
  /\ UNCHANGED <<ld, crop, hyp, len_train_loader, run, net, opt_state, opt_lr, last_epoch,
                 model, optimizers, schedulers, epoch, current_steps,
                 total_train_steps, batch_i, switch_epochs, step_log>>

(* __main__, lines 540-552: the next call of main *)
NextRun ==
  /\ pc = "done" /\ run < MaxRuns
  /\ run' = run + 1
  /\ pc' = "setup"
  /\ UNCHANGED <<phases, ld, crop, hyp, len_train_loader, net, opt_state, opt_lr, last_epoch, model,
                 optimizers, schedulers, epoch, current_steps, total_train_steps,
                 batch_i, switch_epochs, step_log, evals>>

Next ==
  \/ Setup
  \/ BuildOptimizers
  \/ Reinit
  \/ InitWhitening
  \/ EpochFirst
  \/ EpochSwitch
  \/ EpochKeep
  \/ TrainStep
  \/ LoaderExhausted
  \/ EvalEpoch
  \/ TTAEval
  \/ NextRun

Spec == Init /\ [][Next]_vars

(* ------------------------- CifarLoader.__iter__ ------------------------ *)
(* lines 138-166 up to the first yield: the first batch request of an epoch *)
IterBody(flip_mask, shifts, indices) ==
  LET stale == CacheStale(ld.epoch)
      proc == IF stale THEN BuildCache(ld.flip, ld.translate, flip_mask)
              ELSE ld.proc_images
      base == EpochBase(proc, ld.flip, ld.translate, shifts)
      mirror == ld.flip /\ EpochFlip(ld.epoch)
      images == IF mirror THEN FlipAll(base) ELSE base
      n == LoaderLen(ld)
  IN ld' = [ld EXCEPT
              !.proc_images = proc,
              !.builds = IF stale THEN @ + 1 ELSE @,
              !.flip_mask = IF stale THEN flip_mask ELSE @,
              !.shifts = shifts,
              !.mirror_log = Append(@, mirror),
              !.epoch = @ + 1,
              !.images = IF n > 0 THEN images ELSE NoTensor,
              !.indices = IF n > 0 THEN indices ELSE <<>>,
              !.i = IF n > 0 THEN 1 ELSE 0,
              !.batch = IF n > 0 THEN BatchIdxs(indices, 0, ld.batch_size) ELSE <<>>,
              !.yielded = IF n > 0 THEN <<BatchIdxs(indices, 0, ld.batch_size)>> ELSE <<>>,
              !.last_count = IF n > 0 THEN -1 ELSE 0,
              !.pc = IF n > 0 THEN "yielding" ELSE "idle"]

IterDraws(first) ==
  \E flip_mask \in (IF first /\ ld.flip THEN [1..NumImages -> BOOLEAN]
                     ELSE {ld.flip_mask}) :
  \E shifts \in (IF ld.translate > 0 THEN ShiftDraws(ld.translate)
                  ELSE {NoShifts}) :
  \E indices \in (IF ld.shuffle THEN Perms(NumImages)
                   ELSE {[k \in 1..NumImages |-> k]}) :
     IterBody(flip_mask, shifts, indices)

IterFirst ==
  /\ ld.pc = "idle" /\ ld.epoch = 0
  /\ IterDraws(TRUE)
  /\ UNCHANGED <<mainVars, crop>>

IterLater ==
  /\ ld.pc = "idle" /\ ld.epoch > 0 /\ ld.epoch < MaxLoaderEpochs
  /\ IterDraws(FALSE)
  /\ UNCHANGED <<mainVars, crop>>

(* lines 164-166: the next batch of the running epoch *)
NextBatch ==
  /\ ld.pc = "yielding" /\ ld.i < LoaderLen(ld)
  /\ ld' = [ld EXCEPT !.batch = BatchIdxs(ld.indices, ld.i, ld.batch_size),
                      !.yielded = Append(@, BatchIdxs(ld.indices, ld.i, ld.batch_size)),
                      !.i = @ + 1]
  /\ UNCHANGED <<mainVars, crop>>

(* line 164: range(len(self)) is exhausted and the generator returns *)
IterEnd ==
  /\ ld.pc = "yielding" /\ ld.i >= LoaderLen(ld)
  /\ ld' = [ld EXCEPT !.pc = "idle", !.images = NoTensor, !.indices = <<>>,
                      !.i = 0, !.batch = <<>>, !.shifts = NoShifts,
                      !.yielded = <<>>, !.last_count = Len(ld.yielded)]
  /\ UNCHANGED <<mainVars, crop>>

(* main, line 480: the consumer breaks out and drops the generator *)
IterAbandon ==
  /\ ld.pc = "yielding" /\ ld.i < LoaderLen(ld)
  /\ ld' = [ld EXCEPT !.pc = "idle", !.images = NoTensor, !.indices = <<>>,
                      !.i = 0, !.batch = <<>>, !.shifts = NoShifts,
                      !.yielded = <<>>, !.last_count = -1]
  /\ UNCHANGED <<mainVars, crop>>

NextLoader == IterFirst \/ IterLater \/ NextBatch \/ IterEnd \/ IterAbandon

InitLoader == MainIdle /\ LoaderInit /\ crop = CropIdle

SpecLoader == InitLoader /\ [][NextLoader]_vars

(* ------------------------------ batch_crop ----------------------------- *)
(* the call as coded: the path is chosen by the margin *)
RunBatchCrop ==
  /\ crop.pc = "start"
  /\ crop' = [crop EXCEPT !.images_out = batch_crop(PaddedInput(crop.r), CropSize, crop.shifts),
                          !.writes = batch_crop_writes(PaddedInput(crop.r), CropSize, crop.shifts),
                          !.pc = "direct"]
  /\ UNCHANGED <<mainVars, ld>>

(* the per-shift masking path on the same input and offsets *)
RunDirect ==
  /\ crop.pc = "direct"
  /\ crop' = [crop EXCEPT !.direct = crop_direct(PaddedInput(crop.r), CropSize, crop.shifts),
                          !.pc = "two_pass"]
  /\ UNCHANGED <<mainVars, ld>>

(* the separable two-pass path on the same input and offsets *)
RunTwoPass ==
  /\ crop.pc = "two_pass"
  /\ crop' = [crop EXCEPT !.two_pass = crop_two_pass(PaddedInput(crop.r), CropSize, crop.shifts),
                          !.pc = "done"]
  /\ UNCHANGED <<mainVars, ld>>

NextCrop == RunBatchCrop \/ RunDirect \/ RunTwoPass

InitCrop == MainIdle /\ ld = LoaderIdle /\ CropInit

SpecCrop == InitCrop /\ [][NextCrop]_vars

(* ======================= properties of main ============================ *)
InRun == pc \in {"epoch_head", "train", "eval", "done"}

StepsUpTo(e) == {j \in DOMAIN step_log : step_log[j].epoch <= e}

StepsIn(e) == {j \in DOMAIN step_log : step_log[j].epoch = e}

SetMax(S) == CHOOSE x \in S : \A y \in S : y <= x

SetMin(S) == CHOOSE x \in S : \A y \in S : x <= y

(* C1: in every finished run whose threshold whiten_bias_epochs names an   *)
(* epoch of the run, the frozen-bias model and optimizer are swapped in    *)
(* exactly once, at the start of the epoch whose index is the threshold.   *)
C1_SwitchOnceAtThreshold ==
  (pc = "done" /\ hyp.whiten_bias_epochs < NumEpochs)
     => switch_epochs = <<hyp.whiten_bias_epochs>>

(* C2: the whitening bias is stepped by an optimizer only in epochs with   *)
(* index below whiten_bias_epochs; with the threshold 0 no step updates    *)
(* the bias and every step trains the frozen-bias model.                   *)
C2_BiasTrainedOnlyBeforeThreshold ==
  \A k \in DOMAIN step_log :
     /\ step_log[k].bias => step_log[k].epoch < hyp.whiten_bias_epochs
     /\ hyp.whiten_bias_epochs = 0 =>
           (~step_log[k].bias /\ step_log[k].model = "model_freezebias")

(* C3 as stated: at the transition every parameter of the incoming model   *)
(* equals the outgoing model's, no parameter of the outgoing model         *)
(* changes, and every momentum buffer held by an outgoing optimizer is     *)
(* held, identical, by an incoming optimizer (no buffer is lost).          *)
C3_TransitionLosesNoBuffer ==
  [][ Len(switch_epochs') = Len(switch_epochs) + 1 =>
        /\ \A p \in StateNames : net'[model'][p] = net[model][p]
        /\ net'[model] = net[model]
        /\ \A k \in DOMAIN optimizers : \A p \in OptParams(optimizers[k]) :
              \E j \in DOMAIN optimizers' :
                 /\ p \in OptParams(optimizers'[j])
                 /\ opt_state'[optimizers'[j]][p] = opt_state[optimizers[k]][p]
    ]_vars

(* C3 amended: at the transition every parameter and buffer of the         *)
(* incoming model equals the outgoing model's value immediately before,    *)
(* the outgoing model is unchanged, and every momentum buffer of the       *)
(* incoming optimizer equals the buffer the first outgoing optimizer held  *)
(* for that parameter.                                                     *)
C3_TransitionPreservesState ==
  [][ Len(switch_epochs') = Len(switch_epochs) + 1 =>
        /\ \A p \in StateNames : net'[model'][p] = net[model][p]
        /\ net'[model] = net[model]
        /\ \A j \in DOMAIN optimizers' : \A p \in OptParams(optimizers'[j]) :
              opt_state'[optimizers'[j]][p] = opt_state[optimizers[j]][p]
    ]_vars

(* the transition has happened after training steps built up momentum *)
C3_Witness ==
  /\ pc = "train" /\ batch_i = 0
  /\ Len(switch_epochs) = 1
  /\ model = "model_freezebias"
  /\ opt_state["optimizer_freezebias"]["conv_w"].ver >= 2
  /\ opt_state["optimizer_freezebias"] = opt_state["optimizer_trainbias"]
  /\ net["model_freezebias"] = net["model_trainbias"]
  /\ opt_state["optimizer2_trainbias"]["whiten_b"].ver >= 2

(* C4: within a run current_steps never exceeds                            *)
(* total_train_steps = ceil(batches_per_epoch * train_epochs), and the run *)
(* ends after exactly total_train_steps training steps.                    *)
C4_StepBudget ==
  InRun =>
    /\ total_train_steps * EpochDen >= len_train_loader * hyp.train_epochs_num
    /\ (total_train_steps - 1) * EpochDen < len_train_loader * hyp.train_epochs_num
    /\ current_steps <= total_train_steps
    /\ Len(step_log) = current_steps
    /\ pc = "done" => current_steps = total_train_steps

(* a finished run whose last epoch was cut short by the budget *)
C4_Witness ==
  /\ pc = "done"
  /\ current_steps = total_train_steps
  /\ total_train_steps < NumEpochs * len_train_loader
  /\ NumEpochs >= 2

(* C5 as stated: the multiplier applied by the active optimizers is 1 at   *)
(* step 0, never increases, and is 0 at the final training step.           *)
C5_AppliedMultiplierEndsAtZero ==
  (InRun /\ pc = "done") =>
    /\ step_log[1].lrs = {get_lr(0)}
    /\ get_lr(0) = total_train_steps
    /\ \A k \in 1..(Len(step_log) - 1) :
          SetMax(step_log[k + 1].lrs) <= SetMin(step_log[k].lrs)
    /\ step_log[Len(step_log)].lrs = {0}

(* C5 amended: the multiplier applied by every active optimizer is 1 at    *)
(* step 0 and 1 - k/total_train_steps at step k (so it never increases,    *)
(* and is 1/total_train_steps at the final training step); the multiplier  *)
(* 0 is what the active schedulers hold after the final step.              *)
C5_MultiplierSchedule ==
  InRun =>
    /\ \A k \in DOMAIN step_log : step_log[k].lrs = {total_train_steps - (k - 1)}
    /\ \A k \in 1..(Len(step_log) - 1) :
          SetMax(step_log[k + 1].lrs) <= SetMin(step_log[k].lrs)
    /\ pc = "done" =>
          /\ step_log[Len(step_log)].lrs = {1}
          /\ \A o \in ActiveOpts : opt_lr[o] = 0

(* a finished run that crossed the stage transition *)
C5_Witness ==
  /\ pc = "done"
  /\ Len(switch_epochs) = 1
  /\ Len(step_log) >= 3
  /\ step_log[1].model = "model_trainbias"
  /\ step_log[Len(step_log)].model = "model_freezebias"

(* C8: whenever a training step or an evaluation is about to run, every    *)
(* parameter and buffer of the active model and every momentum buffer of   *)
(* the active optimizers depends on no run other than the current one.     *)
C8_NoStateFromEarlierRuns ==
  pc \in {"epoch_head", "train", "eval"} /\ (pc = "epoch_head" => epoch > 0) =>
    /\ \A p \in StateNames : net[model][p].dep \subseteq {run}
    /\ \A o \in ActiveOpts : \A p \in OptParams(o) : opt_state[o][p].dep \subseteq {run}

(* a later run is training while the other compiled model still holds the  *)
(* previous run's weights                                                  *)
C8_Witness ==
  /\ run = 2 /\ pc = "train" /\ current_steps >= 1
  /\ model = "model_trainbias"
  /\ net["model_trainbias"]["norm_b"].dep = {2}
  /\ net["model_freezebias"]["norm_b"].dep = {1}

(* C9: after the training of each epoch exactly one evaluation with        *)
(* tta_level 0 is made on the model that trained that epoch; after the     *)
(* final epoch exactly one more is made with the configured tta_level on   *)
(* the model of the final epoch, and no training step follows it.          *)
C9_Evaluations ==
  InRun =>
    /\ Len(evals) <= NumEpochs + 1
    /\ pc = "epoch_head" => Len(evals) = epoch
    /\ pc = "train" => Len(evals) = epoch
    /\ pc = "done" => Len(evals) = NumEpochs + 1
    /\ \A k \in DOMAIN evals :
          IF k <= NumEpochs
          THEN /\ evals[k].epoch = k - 1
               /\ evals[k].tta_level = 0
               /\ ~evals[k].final
               /\ StepsIn(k - 1) # {}
               /\ \A j \in StepsIn(k - 1) : step_log[j].model = evals[k].model
               /\ evals[k].at_step = Cardinality(StepsUpTo(k - 1))
          ELSE /\ evals[k].final
               /\ evals[k].tta_level = hyp.tta_level
               /\ \A j \in StepsIn(NumEpochs - 1) : step_log[j].model = evals[k].model
               /\ evals[k].at_step = Len(step_log)

(* a finished run with epochs on both models, a final level above 0 *)
C9_Witness ==
  /\ pc = "done"
  /\ Len(evals) = NumEpochs + 1
  /\ NumEpochs >= 2
  /\ evals[1].model = "model_trainbias"
  /\ evals[NumEpochs].model = "model_freezebias"
  /\ evals[NumEpochs + 1].tta_level = 2

(* ==================== properties of CifarLoader ======================== *)
Odd(e) == e % 2 = 1

(* image i of the running epoch before the whole-epoch mirror, written out *)
(* from the dataset, the drawn flip mask and the drawn crop offsets        *)
Unmirrored(i) ==
  LET norm == normalize(Dataset)[i]
      pre == IF ld.flip /\ ld.flip_mask[i] THEN FlipLR(norm) ELSE norm
      pad == ld.translate
      sy == ld.shifts[i][1]
      sx == ld.shifts[i][2]
  IN [y \in 0..(ImgSize - 1) |-> [x \in 0..(ImgSize - 1) |->
        pre[Reflect(sy + y, ImgSize)][Reflect(sx + x, ImgSize)]]]

(* C6: with flip augmentation on, in epoch e every image is served         *)
(* mirrored if and only if e is odd, all images together, so the flip      *)
(* states of consecutive epochs differ.                                    *)
C6_EpochMirror ==
  ld.flip =>
    /\ Len(ld.mirror_log) = ld.epoch
    /\ \A k \in DOMAIN ld.mirror_log : ld.mirror_log[k] = Odd(k - 1)
    /\ \A k \in 1..(Len(ld.mirror_log) - 1) : ld.mirror_log[k + 1] # ld.mirror_log[k]
    /\ ld.pc = "yielding" =>
          \A i \in 1..NumImages :
             ld.images[i] = IF Odd(ld.epoch - 1) THEN FlipLR(Unmirrored(i))
                            ELSE Unmirrored(i)

(* the third epoch of a flipping, translating loader is being served *)
C6_Witness ==
  /\ ld.flip /\ ld.translate = 1
  /\ ld.pc = "yielding" /\ ld.epoch = 3
  /\ ld.mirror_log = <<FALSE, TRUE, FALSE>>
  /\ ld.flip_mask[1] /\ ~ld.flip_mask[2]
  /\ ld.shifts[1] = <<1, 0 - 1>>

(* C10 as stated: the cache in proc_images is rebuilt once at the start of *)
(* every epoch, so after k started epochs it has been built k times.       *)
C10_CacheRebuiltEveryEpoch == ld.builds = ld.epoch

(* C10 amended: the cache in proc_images is built once, at the first batch *)
(* request of the loader's first epoch, and every later epoch reuses it    *)
(* unchanged.                                                              *)
C10_CacheBuiltOnce ==
  /\ ld.epoch = 0 => (ld.builds = 0 /\ ld.proc_images = EmptyDict)
  /\ ld.epoch >= 1 =>
        /\ ld.builds = 1
        /\ ld.proc_images = BuildCache(ld.flip, ld.translate, ld.flip_mask)

(* three epochs were started on one cache *)
C10_Witness ==
  /\ ld.epoch = 3 /\ ld.builds = 1
  /\ ld.flip /\ ld.translate = 1
  /\ DOMAIN ld.proc_images = {"norm", "flip", "pad"}

(* ====================== properties of batch_crop ======================= *)
CropWindow(r, shifts) ==
  [i \in 1..NumImages |-> [y \in 0..(CropSize - 1) |-> [x \in 0..(CropSize - 1) |->
     PaddedInput(r)[i][r + shifts[i][1] + y][r + shifts[i][2] + x]]]]

(* C7: on the same padded input and offsets the per-shift masking path and *)
(* the two-pass path give the same output, the window at the drawn offset, *)
(* for every margin and offset pair; so does the path batch_crop selects.  *)
C7_CropPathsAgree ==
  crop.pc = "done" =>
    /\ crop.direct = crop.two_pass
    /\ crop.direct = CropWindow(crop.r, crop.shifts)
    /\ crop.two_pass = CropWindow(crop.r, crop.shifts)
    /\ crop.images_out = CropWindow(crop.r, crop.shifts)

(* a margin above 2 with different row and column offsets *)
C7_Witness ==
  /\ crop.pc = "done" /\ crop.r = 3
  /\ crop.shifts[1] = <<0 - 3, 2>>
  /\ crop.shifts[2] = <<2, 0 - 3>>
  /\ crop.direct = crop.two_pass


(* ---------------------------------------------------------------------- *)
(* The order of the phases of a run                                        *)
(* ---------------------------------------------------------------------- *)

Occurrences(ph) == {i \in DOMAIN phases : phases[i] = ph}

PhaseBefore(a, b) ==
  Occurrences(b) # {} =>
    /\ Occurrences(a) # {}
    /\ SetMin(Occurrences(a)) < SetMin(Occurrences(b))

OncePerRun(ph) ==
  /\ Cardinality(Occurrences(ph)) <= 1
  /\ InRun => Cardinality(Occurrences(ph)) = 1

RunStarted == pc \notin {"idle", "setup"}

(* C11 as stated: in every run the parameters are reinitialized before the *)
(* optimizers are built, the optimizers are built before the whitening     *)
(* layer is initialized, that before the first training step and that      *)
(* before the first evaluation; the whitening initialization runs exactly  *)
(* once per run.                                                           *)
C11_ReinitThenOptimizers ==
  RunStarted =>
    /\ PhaseBefore("reinit", "build_optimizers")
    /\ PhaseBefore("build_optimizers", "init_whitening")
    /\ PhaseBefore("init_whitening", "train")
    /\ PhaseBefore("train", "evaluate")
    /\ OncePerRun("init_whitening")

(* C11 amended: in every run the optimizers are built first, then the      *)
(* parameters are reinitialized, then the whitening layer is initialized,  *)
(* then training starts, then the first evaluation is made; each of the    *)
(* three preparatory phases runs exactly once per run, the whitening       *)
(* initialization before any training step, and a finished run ends with   *)
(* an evaluation.                                                          *)
C11_PhaseOrder ==
  RunStarted =>
    /\ PhaseBefore("build_optimizers", "reinit")
    /\ PhaseBefore("reinit", "init_whitening")
    /\ PhaseBefore("init_whitening", "train")
    /\ PhaseBefore("train", "evaluate")
    /\ OncePerRun("build_optimizers")
    /\ OncePerRun("reinit")
    /\ OncePerRun("init_whitening")
    /\ \A i \in Occurrences("train") : \E j \in Occurrences("init_whitening") : j < i
    /\ pc = "done" => phases[Len(phases)] = "evaluate"

(* a finished timed run that trained in two epochs and evaluated after each *)
C11_Witness ==
  /\ pc = "done" /\ run >= 1
  /\ Cardinality(Occurrences("train")) >= 2
  /\ Cardinality(Occurrences("evaluate")) >= 3
  /\ \E i \in Occurrences("evaluate") : \E j \in Occurrences("train") : i < j


(* ---------------------------------------------------------------------- *)
(* The batches of one epoch of a CifarLoader                               *)
(* ---------------------------------------------------------------------- *)

RECURSIVE Flatten(_)
Flatten(seqs) ==
  IF seqs = <<>> THEN <<>> ELSE Head(seqs) \o Flatten(Tail(seqs))

Identity == [k \in 1..NumImages |-> k]

IsPermutation(indices) ==
  /\ DOMAIN indices = 1..NumImages
  /\ \A s \in 1..NumImages : Cardinality({k \in 1..NumImages : indices[k] = s}) = 1

TimesYielded(s) ==
  LET flat == Flatten(ld.yielded)
  IN Cardinality({k \in DOMAIN flat : flat[k] = s})

Remainder == NumImages % ld.batch_size

EpochYielding == ld.pc = "yielding"

EpochServed == EpochYielding /\ ld.i = LoaderLen(ld)

(* the batches yielded so far are the first slices of one permutation *)
ConsecutiveSlices ==
  /\ Len(ld.yielded) = ld.i
  /\ ld.i <= LoaderLen(ld)
  /\ IsPermutation(ld.indices)
  /\ ~ld.shuffle => ld.indices = Identity
  /\ Flatten(ld.yielded) =
       SubSeq(ld.indices, 1, Min(ld.i * ld.batch_size, NumImages))
  /\ \A s \in 1..NumImages : TimesYielded(s) <= 1

(* what a finished epoch has covered, by drop_last *)
EpochCoverage ==
  EpochServed =>
    IF ld.drop_last
    THEN {k \in 1..NumImages : TimesYielded(ld.indices[k]) = 0}
           = (NumImages - Remainder + 1)..NumImages
    ELSE \A s \in 1..NumImages : TimesYielded(s) = 1

(* a generator that ran to its end has yielded len(loader) batches, which *)
(* with drop_last off are enough to hold every sample                     *)
ExhaustedCount ==
  ld.last_count >= 0 =>
    /\ ld.last_count = LoaderLen(ld)
    /\ ~ld.drop_last => ld.last_count * ld.batch_size >= NumImages
    /\ ld.drop_last => ld.last_count * ld.batch_size <= NumImages

(* C12 as stated: in every epoch the loader yields exactly len(loader)     *)
(* batches that are consecutive slices of one permutation of all dataset   *)
(* indices (the identity when shuffle is off), every batch has exactly     *)
(* batch_size samples, no sample appears in two batches, with drop_last    *)
(* off every sample appears exactly once and with drop_last on only the    *)
(* trailing len(images) mod batch_size positions are omitted.              *)
C12_EveryBatchFull ==
  /\ ExhaustedCount
  /\ EpochYielding =>
       /\ ConsecutiveSlices
       /\ EpochCoverage
       /\ \A k \in DOMAIN ld.yielded : Len(ld.yielded[k]) = ld.batch_size

(* C12 amended: as stated, except that with drop_last off and a dataset    *)
(* size that is no multiple of batch_size the last batch of the epoch      *)
(* holds the remaining len(images) mod batch_size samples; every other     *)
(* batch, and every batch with drop_last on, has exactly batch_size.       *)
C12_EpochBatches ==
  /\ ExhaustedCount
  /\ EpochYielding =>
       /\ ConsecutiveSlices
       /\ EpochCoverage
       /\ \A k \in DOMAIN ld.yielded :
            Len(ld.yielded[k]) =
              IF k * ld.batch_size <= NumImages THEN ld.batch_size ELSE Remainder
       /\ ld.drop_last =>
            \A k \in DOMAIN ld.yielded : Len(ld.yielded[k]) = ld.batch_size

(* a shuffled epoch with drop_last off served to its end, its last batch   *)
(* short of batch_size                                                     *)
C12_Witness ==
  /\ EpochServed /\ ld.shuffle /\ ~ld.drop_last
  /\ ld.indices # Identity
  /\ Len(ld.yielded) >= 1
  /\ Len(ld.yielded[Len(ld.yielded)]) < ld.batch_size


(* ---------------------------------------------------------------------- *)
(* batch_crop fills its uninitialised buffers                              *)
(* ---------------------------------------------------------------------- *)

CropRan == crop.pc \in {"direct", "two_pass", "done"}

HasUninit(tensor) ==
  \E i \in DOMAIN tensor : \E y \in DOMAIN tensor[i] : \E x \in DOMAIN tensor[i][y] :
     tensor[i][y][x] = Uninit

PaddedSide(r) == ImgWidth(PaddedInput(r)[1])

WindowInside(r, s) == 0 <= r + s /\ r + s + CropSize <= PaddedSide(r)

(* C13: for every margin r >= 0 and every image of the batch, batch_crop   *)
(* assigns that image's entry of images_out exactly once and, on the       *)
(* two-pass path, its entry of images_tmp exactly once; every drawn offset *)
(* component lies in [-r, r]; every crop window [r+s, r+s+crop_size) lies  *)
(* inside the padded image of side crop_size + 2r; and the returned buffer *)
(* has a full crop_size x crop_size entry for every image with no element  *)
(* left uninitialised.                                                     *)
C13_EveryEntryWrittenOnce ==
  CropRan =>
    /\ Margin(PaddedInput(crop.r), CropSize) = crop.r
    /\ PaddedSide(crop.r) = CropSize + 2 * crop.r
    /\ crop.writes.tmp_allocated = (crop.r > 2)
    /\ DOMAIN crop.images_out = 1..NumImages
    /\ ~HasUninit(crop.images_out)
    /\ \A i \in 1..NumImages :
         /\ crop.writes.out[i] = 1
         /\ crop.writes.tmp[i] = IF crop.writes.tmp_allocated THEN 1 ELSE 0
         /\ \A axis \in 1..2 :
              /\ 0 - crop.r <= crop.shifts[i][axis]
              /\ crop.shifts[i][axis] <= crop.r
              /\ WindowInside(crop.r, crop.shifts[i][axis])
         /\ Height(crop.images_out[i]) = CropSize
         /\ ImgWidth(crop.images_out[i]) = CropSize

(* the two-pass path with the extreme offsets -r and r on different images *)
C13_Witness ==
  /\ crop.pc = "done" /\ crop.r = 3 /\ crop.writes.tmp_allocated
  /\ crop.shifts[1] = <<3, 0 - 3>>
  /\ crop.shifts[2] = <<0 - 3, 3>>
  /\ crop.writes.out[2] = 1 /\ crop.writes.tmp[2] = 1

(* the direct path at its largest margin *)
C13_WitnessDirect ==
  /\ crop.pc = "done" /\ crop.r = 2 /\ ~crop.writes.tmp_allocated
  /\ crop.shifts[1] = <<2, 0 - 2>>
  /\ crop.writes.out[1] = 1

====
